---- MODULE Spec2Model ----
(***************************************************************************)
(* Model of src/mlhousing/preprocess.py: the housing preprocessing         *)
(* pipeline (load, bin, stratified split, impute, ratio features, one-hot  *)
(* encoding, write four CSV files).                                        *)
(*                                                                         *)
(* Numbers.  A numeric cell holds four times the value it stands for, so   *)
(* 1.5 is 6 and 0.5 is 2.  Raw cells are multiples of 0.5 (even numbers    *)
(* here), which makes the median of two raw cells an integer.  A missing   *)
(* cell is NaN.  A ratio cell is a reduced fraction <<n, d>>; d = 0 stands *)
(* for the IEEE results of a division by zero: <<1,0>> = +inf,             *)
(* <<-1,0>> = -inf, <<0,0>> = nan.                                         *)
(*                                                                         *)
(* Tables.  A DataFrame is [index, columns, data]: the row labels, the set *)
(* of column names and, per row, a function from column name to cell.  A   *)
(* Series is [index, data].                                                *)
(***************************************************************************)
EXTENDS Integers, Sequences, FiniteSets, TLC

VARIABLES
    pc,               \* position in init_preprocess / the call under test
    housing,          \* the table loaded by load_housing_data, then binned
    strat_train_set,  \* train partition
    strat_test_set,   \* test partition
    imputer,          \* the SimpleImputer object: [fitted, columns, statistics]
    fits,             \* the data every imputer.fit call was given, in order
    X_train, y_train, X_test, y_test,
    files,            \* files written so far, in order: [dir, name, content]
    cwd,              \* process working directory
    cw_dir,           \* module global captured at import
    cwd_at_call,      \* working directory when the called function was entered
    INPUT_FILE,       \* input file name, a sequence of characters
    OUTPUT_PATH       \* [abs, parts]

vars == <<pc, housing, strat_train_set, strat_test_set, imputer, fits,
          X_train, y_train, X_test, y_test, files, cwd, cw_dir, cwd_at_call,
          INPUT_FILE, OUTPUT_PATH>>

---------------------------------------------------------------------------
(* Bounds *)

MaxRows == 4
MaxIncome == 26
MaxBinRows == 2
MaxSplitRows == 6
MaxNameLen == 5

---------------------------------------------------------------------------
(* Cells *)

NaN == 1000000

IsNaN(v) == v = NaN

RECURSIVE GCD(_, _)
GCD(a, b) == IF b = 0 THEN a ELSE GCD(b, a % b)

Abs(a) == IF a < 0 THEN -a ELSE a

Sign(a) == IF a > 0 THEN 1 ELSE IF a < 0 THEN -1 ELSE 0

\* Float division a / b of pandas Series cells (no exception on b = 0).
TrueDiv(a, b) ==
    IF IsNaN(a) \/ IsNaN(b) THEN <<0, 0>>
    ELSE IF b = 0 THEN <<Sign(a), 0>>
    ELSE LET g == GCD(Abs(a), Abs(b))
         IN  <<Sign(b) * (a \div g), Abs(b) \div g>>

---------------------------------------------------------------------------
(* DataFrame helpers *)

RangeIndex(n) == [i \in 1..n |-> i - 1]

Range(s) == {s[i] : i \in DOMAIN s}

EmptyFrame == [index |-> <<>>, columns |-> {}, data |-> <<>>]

EmptySeries == [index |-> <<>>, data |-> <<>>]

NRows(t) == Len(t.index)

\* df[c] = values : assign one column, row by row.
SetRow(r, c, v) == [k \in (DOMAIN r) \cup {c} |-> IF k = c THEN v ELSE r[k]]

\* df.drop(c, axis=1); KeyError when c is not a column is the caller's guard.
Drop(t, c) ==
    [index   |-> t.index,
     columns |-> t.columns \ {c},
     data    |-> [i \in DOMAIN t.data |->
                    [k \in (DOMAIN t.data[i]) \ {c} |-> t.data[i][k]]]]

\* df[c] as a Series.
Column(t, c) ==
    [index |-> t.index, data |-> [i \in DOMAIN t.data |-> t.data[i][c]]]

RECURSIVE Concat(_, _)
Concat(ss, n) == IF n = 0 THEN <<>> ELSE Concat(ss, n - 1) \o ss[n]

\* Positions of the rows labelled l, in table order.
RECURSIVE PositionsOf(_, _, _)
PositionsOf(index, l, n) ==
    IF n = 0 THEN <<>>
    ELSE PositionsOf(index, l, n - 1) \o (IF index[n] = l THEN <<n>> ELSE <<>>)

\* df.loc[labels]: for each label in turn, every row carrying it.
LocPositions(t, labels) ==
    Concat([j \in DOMAIN labels |-> PositionsOf(t.index, labels[j], NRows(t))],
           Len(labels))

\* df.loc[labels] raises KeyError when a label is not in the index.
LocOk(t, labels) == \A j \in DOMAIN labels : labels[j] \in Range(t.index)

Loc(t, labels) ==
    LET ps == LocPositions(t, labels)
    IN  [index   |-> [j \in DOMAIN ps |-> t.index[ps[j]]],
         columns |-> t.columns,
         data    |-> [j \in DOMAIN ps |-> t.data[ps[j]]]]

---------------------------------------------------------------------------
(* binning *)

\* bins=[0.0, 1.5, 3.0, 4.5, 6.0, np.inf], four times each finite edge.
bins == <<0, 6, 12, 18, 24>>

labels == <<1, 2, 3, 4, 5>>

\* pd.cut with right=True, include_lowest=False: bin k is (bins[k], bins[k+1]],
\* the last one (bins[5], +inf]; a value in no bin, or missing, gets NaN.
Cut(x) ==
    IF IsNaN(x) THEN NaN
    ELSE IF \E k \in 1..4 : bins[k] < x /\ x <= bins[k + 1]
         THEN labels[CHOOSE k \in 1..4 : bins[k] < x /\ x <= bins[k + 1]]
    ELSE IF bins[5] < x THEN labels[5]
    ELSE NaN

binning_result(h) ==
    [index   |-> h.index,
     columns |-> h.columns \cup {"income_cat"},
     data    |-> [i \in DOMAIN h.data |->
                    SetRow(h.data[i], "income_cat", Cut(h.data[i]["median_income"]))]]

---------------------------------------------------------------------------
(* startified_split *)

Sum3(f, S) ==
    LET RECURSIVE Acc(_)
        Acc(T) == IF T = {} THEN 0
                  ELSE LET c == CHOOSE c \in T : TRUE IN f[c] + Acc(T \ {c})
    IN  Acc(S)

\* sklearn _validate_shuffle_split with test_size=0.2, train_size=None:
\* n_test = ceil(0.2 * n_samples), n_train = n_samples - n_test.  The float
\* product rounds to the same ceiling for every table size used here.
NTest(n) == (n + 4) \div 5

NTrain(n) == n - NTest(n)

\* sklearn _approximate_mode: floor of the proportional share, the draws left
\* over going to the classes with the largest remainders, ties broken at random.
ApproximateMode(class_counts, n_draws) ==
    LET classes == DOMAIN class_counts
        total   == Sum3(class_counts, classes)
        fl      == [c \in classes |-> (class_counts[c] * n_draws) \div total]
        rem     == [c \in classes |-> (class_counts[c] * n_draws) % total]
        need    == n_draws - Sum3(fl, classes)
    IN  { [c \in classes |-> fl[c] + (IF c \in A THEN 1 ELSE 0)] :
            A \in { B \in SUBSET classes :
                      /\ Cardinality(B) = need
                      /\ \A c \in B, d \in classes \ B : rem[c] >= rem[d] } }

\* All orderings of a set of positions (rng.permutation).
Orderings(S) ==
    { s \in [1..Cardinality(S) -> S] : \A i, j \in DOMAIN s : i # j => s[i] # s[j] }

\* StratifiedShuffleSplit(n_splits=1, test_size=0.2).split(housing, y) raises
\* ValueError on a missing label, an empty train set, a class with fewer than
\* two members, or fewer train or test rows than classes.
SplitOk(y) ==
    LET n       == Len(y)
        classes == Range(y)
    IN  /\ n >= 1
        /\ \A i \in DOMAIN y : ~IsNaN(y[i])
        /\ NTrain(n) >= 1
        /\ \A c \in classes : Cardinality({i \in DOMAIN y : y[i] = c}) >= 2
        /\ NTrain(n) >= Cardinality(classes)
        /\ NTest(n) >= Cardinality(classes)

\* The (train_index, test_index) pairs the split can yield: zero-based
\* positions; per class the first n_i[c] entries of a random permutation of the
\* class go to train and the next t_i[c] to test, then each side is shuffled.
SplitOutcomes(y) ==
    LET n       == Len(y)
        classes == Range(y)
        members == [c \in classes |-> {i \in DOMAIN y : y[i] = c}]
        counts  == [c \in classes |-> Cardinality(members[c])]
    IN  UNION { UNION { UNION {
            { [train_index |-> [k \in DOMAIN tr |-> tr[k] - 1],
               test_index  |-> [k \in DOMAIN te |-> te[k] - 1]] :
                 tr \in Orderings(S), te \in Orderings(T) } :
            T \in { U \in SUBSET ((DOMAIN y) \ S) :
                      \A c \in classes : Cardinality(U \cap members[c]) = t_i[c] } } :
          S \in { U \in SUBSET (DOMAIN y) :
                      \A c \in classes : Cardinality(U \cap members[c]) = n_i[c] },
          t_i \in ApproximateMode([c \in classes |-> counts[c] - n_i[c]], NTest(n)) } :
        n_i \in ApproximateMode(counts, NTrain(n)) }

\* The slip of looking up train_index twice.
startified_split_same_index(h, train_index, test_index) ==
    [train |-> Loc(h, train_index), test |-> Loc(h, train_index)]

\* Lines 92-93: both partitions are label lookups into housing.
startified_split_result(h, train_index, test_index) ==
    [train |-> Loc(h, train_index), test |-> Loc(h, test_index)]

---------------------------------------------------------------------------
(* drop_income_cat *)

\* The slip of dropping the column from the train partition only.
drop_income_cat_train_only(train, test) ==
    [train |-> Drop(train, "income_cat"), test |-> test]

drop_income_cat_result(train, test) ==
    [train |-> Drop(train, "income_cat"), test |-> Drop(test, "income_cat")]

---------------------------------------------------------------------------
(* SimpleImputer(strategy="median") *)

RECURSIVE Insert(_, _)
Insert(s, v) ==
    IF s = <<>> THEN <<v>>
    ELSE IF v <= Head(s) THEN <<v>> \o s
    ELSE <<Head(s)>> \o Insert(Tail(s), v)

RECURSIVE Sorted(_)
Sorted(s) == IF s = <<>> THEN <<>> ELSE Insert(Sorted(Tail(s)), Head(s))

RECURSIVE Present(_)
Present(s) ==
    IF s = <<>> THEN <<>>
    ELSE (IF IsNaN(Head(s)) THEN <<>> ELSE <<Head(s)>>) \o Present(Tail(s))

\* Median of the cells that are present; NaN when the column has none.  The
\* mean of the two middle cells is exact because raw cells are even.
Median(s) ==
    LET v == Sorted(Present(s))
        n == Len(v)
    IN  IF n = 0 THEN NaN
        ELSE IF n % 2 = 1 THEN v[(n + 1) \div 2]
        ELSE (v[n \div 2] + v[n \div 2 + 1]) \div 2

UnfittedImputer == [fitted |-> FALSE, columns |-> {}, statistics |-> <<>>]

\* imputer.fit(X): one median per column of X.
Fit(X) ==
    [fitted     |-> TRUE,
     columns    |-> X.columns,
     statistics |-> [c \in X.columns |-> Median(Column(X, c).data)]]

\* Columns whose statistic is NaN are dropped by transform.
KeptColumns(imp) == {c \in imp.columns : ~IsNaN(imp.statistics[c])}

\* imputer.transform(X): a bare array (no index), missing cells replaced by
\* the fitted statistic.
Transform(imp, X) ==
    [width |-> Cardinality(KeptColumns(imp)),
     data  |-> [i \in DOMAIN X.data |->
                  [c \in KeptColumns(imp) |->
                     IF IsNaN(X.data[i][c]) THEN imp.statistics[c]
                     ELSE X.data[i][c]]]]

\* transform raises when X does not have the columns seen in fit.
TransformOk(imp, X) == imp.fitted /\ X.columns = imp.columns

---------------------------------------------------------------------------
(* pandas: DataFrame constructor, get_dummies, join *)

\* pd.DataFrame(X, columns=columns, index=index) raises ValueError when the
\* array's shape does not match.
DataFrameOk(X, columns, index) ==
    X.width = Cardinality(columns) /\ Len(X.data) = Len(index)

\* The slip of leaving out index=: the frame gets a fresh RangeIndex.
DataFrame_without_index(X, columns, index) ==
    [index |-> RangeIndex(Len(X.data)), columns |-> columns, data |-> X.data]

DataFrame(X, columns, index) ==
    [index |-> index, columns |-> columns, data |-> X.data]

\* The slip of dividing total_bedrooms by households.
AddRatios_wrong_divisor(t) ==
    [index   |-> t.index,
     columns |-> t.columns \cup {"rooms_per_household", "bedrooms_per_room",
                                 "population_per_household"},
     data    |-> [i \in DOMAIN t.data |->
        LET r  == t.data[i]
            r1 == SetRow(r,  "rooms_per_household",
                         TrueDiv(r["total_rooms"], r["households"]))
            r2 == SetRow(r1, "bedrooms_per_room",
                         TrueDiv(r["total_bedrooms"], r["households"]))
        IN  SetRow(r2, "population_per_household",
                   TrueDiv(r["population"], r["households"]))]]

\* The three derived columns, computed from the cells of the same row.
AddRatios(t) ==
    [index   |-> t.index,
     columns |-> t.columns \cup {"rooms_per_household", "bedrooms_per_room",
                                 "population_per_household"},
     data    |-> [i \in DOMAIN t.data |->
        LET r  == t.data[i]
            r1 == SetRow(r,  "rooms_per_household",
                         TrueDiv(r["total_rooms"], r["households"]))
            r2 == SetRow(r1, "bedrooms_per_room",
                         TrueDiv(r["total_bedrooms"], r["total_rooms"]))
        IN  SetRow(r2, "population_per_household",
                   TrueDiv(r["population"], r["households"]))]]

\* The ocean_proximity values in sorted (lexicographic) order.
Levels == <<"INLAND", "ISLAND", "NEAR BAY">>

LevelRank(v) == CHOOSE k \in DOMAIN Levels : Levels[k] = v

\* pd.get_dummies(cat, drop_first=True, dtype=int): one 0/1 column per level
\* present in cat, except the first level in sorted order.
GetDummies(cat) ==
    LET ranks == {LevelRank(cat.data[i]["ocean_proximity"]) : i \in DOMAIN cat.data}
        first == CHOOSE k \in ranks : \A j \in ranks : k <= j
        kept  == {"ocean_proximity_" \o Levels[k] : k \in ranks \ {first}}
    IN  [index   |-> cat.index,
         columns |-> IF ranks = {} THEN {} ELSE kept,
         data    |-> [i \in DOMAIN cat.data |->
                        [c \in (IF ranks = {} THEN {} ELSE kept) |->
                           IF c = "ocean_proximity_" \o cat.data[i]["ocean_proximity"]
                           THEN 1 ELSE 0]]]

\* left.join(right): left join on the index; a left row is repeated once per
\* right row carrying its label, and gets NaN cells when there is none.
Join(left, right) ==
    LET merge(l, r) == [c \in (DOMAIN l) \cup (DOMAIN r) |->
                           IF c \in DOMAIN l THEN l[c] ELSE r[c]]
        blank       == [c \in right.columns |-> NaN]
        expand(i)   ==
            LET ps == PositionsOf(right.index, left.index[i], NRows(right))
            IN  IF ps = <<>>
                THEN << [label |-> left.index[i], row |-> merge(left.data[i], blank)] >>
                ELSE [j \in DOMAIN ps |->
                        [label |-> left.index[i],
                         row   |-> merge(left.data[i], right.data[ps[j]])]]
        out == Concat([i \in DOMAIN left.index |-> expand(i)], NRows(left))
    IN  [index   |-> [j \in DOMAIN out |-> out[j].label],
         columns |-> left.columns \cup right.columns,
         data    |-> [j \in DOMAIN out |-> out[j].row]]

---------------------------------------------------------------------------
(* feature_engineering_traindataset / feature_engineering_testdataset *)

Needed == {"median_house_value", "ocean_proximity", "total_rooms",
           "households", "total_bedrooms", "population"}

\* Lines 145-169.  ok is FALSE when a step raises (a missing column, or a
\* numeric column with no value at all, which transform drops).
feature_engineering_traindataset_result(h) ==
    LET y_        == Column(h, "median_house_value")
        housing_  == Drop(h, "median_house_value")
        housing_num == Drop(housing_, "ocean_proximity")
        imp       == Fit(housing_num)
        X         == Transform(imp, housing_num)
        ok        == /\ Needed \subseteq h.columns
                     /\ DataFrameOk(X, housing_num.columns, housing_.index)
        housing_tr == AddRatios(DataFrame(X, housing_num.columns, housing_.index))
        housing_cat == [index |-> housing_.index, columns |-> {"ocean_proximity"},
                        data |-> [i \in DOMAIN housing_.data |->
                                   [c \in {"ocean_proximity"} |-> housing_.data[i][c]]]]
    IN  [ok      |-> ok,
         fit_calls |-> <<housing_num>>,
         imputer |-> imp,
         X       |-> IF ok THEN Join(housing_tr, GetDummies(housing_cat)) ELSE EmptyFrame,
         y       |-> IF ok THEN y_ ELSE EmptySeries]

\* Lines 184-211.
feature_engineering_testdataset_result(housing_test, imp) ==
    LET y_         == Column(housing_test, "median_house_value")
        X_test_    == Drop(housing_test, "median_house_value")
        X_test_num == Drop(X_test_, "ocean_proximity")
        X_test_prepared == Transform(imp, X_test_num)
        ok         == /\ Needed \subseteq housing_test.columns
                      /\ TransformOk(imp, X_test_num)
                      /\ DataFrameOk(X_test_prepared, X_test_num.columns, X_test_.index)
        prepared   == AddRatios(DataFrame(X_test_prepared, X_test_num.columns,
                                          X_test_.index))
        X_test_cat == [index |-> X_test_.index, columns |-> {"ocean_proximity"},
                       data |-> [i \in DOMAIN X_test_.data |->
                                   [c \in {"ocean_proximity"} |-> X_test_.data[i][c]]]]
    IN  [ok      |-> ok,
         fit_calls |-> <<>>,
         imputer |-> imp,
         X       |-> IF ok THEN Join(prepared, GetDummies(X_test_cat)) ELSE EmptyFrame,
         y       |-> IF ok THEN y_ ELSE EmptySeries]

---------------------------------------------------------------------------
(* save_processdata *)

\* INPUT_FILE.split(".")[0]: the characters before the first dot.
RECURSIVE SplitFirst(_)
SplitFirst(name) ==
    IF name = <<>> \/ Head(name) = "." THEN <<>>
    ELSE <<Head(name)>> \o SplitFirst(Tail(name))

\* A path handed to the OS, resolved against the working directory.
Resolve(dir, path) == IF path.abs THEN path.parts ELSE dir \o path.parts

\* to_csv(index=False): header and rows, without the index.
FrameCsv(t) == [columns |-> t.columns, data |-> t.data]

SeriesCsv(y) ==
    [columns |-> {"median_house_value"},
     data    |-> [i \in DOMAIN y.data |-> [c \in {"median_house_value"} |-> y.data[i]]]]

\* The slip of writing the test files first.
OutputFiles_test_first(Xtr, ytr, Xte, yte, input_file, dir) ==
    LET file_name == SplitFirst(input_file)
    IN  << [dir |-> dir, name |-> file_name \o <<"_testdata.csv">>,  content |-> FrameCsv(Xte)],
           [dir |-> dir, name |-> file_name \o <<"_testlabel.csv">>, content |-> SeriesCsv(yte)],
           [dir |-> dir, name |-> file_name \o <<"_train.csv">>,     content |-> FrameCsv(Xtr)],
           [dir |-> dir, name |-> file_name \o <<"_label.csv">>,     content |-> SeriesCsv(ytr)] >>

\* Lines 235-249: the four writes, in program order.
OutputFiles(Xtr, ytr, Xte, yte, input_file, dir) ==
    LET file_name == SplitFirst(input_file)
    IN  << [dir |-> dir, name |-> file_name \o <<"_train.csv">>,     content |-> FrameCsv(Xtr)],
           [dir |-> dir, name |-> file_name \o <<"_label.csv">>,     content |-> SeriesCsv(ytr)],
           [dir |-> dir, name |-> file_name \o <<"_testdata.csv">>,  content |-> FrameCsv(Xte)],
           [dir |-> dir, name |-> file_name \o <<"_testlabel.csv">>, content |-> SeriesCsv(yte)] >>

---------------------------------------------------------------------------
(* Inputs *)

Row(income, rooms, households, bedrooms, population, ocean, value) ==
    [c \in {"median_income", "total_rooms", "households", "total_bedrooms",
            "population", "ocean_proximity", "median_house_value"} |->
        CASE c = "median_income"      -> income
          [] c = "total_rooms"        -> rooms
          [] c = "households"         -> households
          [] c = "total_bedrooms"     -> bedrooms
          [] c = "population"         -> population
          [] c = "ocean_proximity"    -> ocean
          [] c = "median_house_value" -> value]

\* Records a CSV row can hold (cells are four times the value): the row of the
\* worked example, rows with missing cells and zero divisors, a row of another
\* income class, and a row whose income is the lowest edge.
RowPool ==
    { Row(4,  40,  8,  20,  80,  "INLAND",   400),
      Row(6,  24,  0,  NaN, 16,  "NEAR BAY", 800),
      Row(2,  0,   16, 0,   NaN, "ISLAND",   1200),
      Row(14, NaN, 8,  8,   24,  "INLAND",   1600),
      Row(0,  8,   8,  NaN, 8,   "NEAR BAY", 2000) }

RawColumns == {"median_income", "total_rooms", "households", "total_bedrooms",
               "population", "ocean_proximity", "median_house_value"}

\* pd.read_csv: the rows of the file under a RangeIndex.
ReadCsv(rows) ==
    [index |-> RangeIndex(Len(rows)), columns |-> RawColumns, data |-> rows]

Dirs == { <<"a">>, <<"b">> }

OutputPaths == { [abs |-> TRUE, parts |-> <<"out">>],
                 [abs |-> FALSE, parts |-> <<"out">>] }

---------------------------------------------------------------------------
(* init_preprocess, step by step *)

Abort ==
    /\ pc' = "aborted"
    /\ UNCHANGED <<housing, strat_train_set, strat_test_set, imputer, fits,
                   X_train, y_train, X_test, y_test, files, cwd, cw_dir,
                   cwd_at_call, INPUT_FILE, OUTPUT_PATH>>

\* Lines 281-282: make_dirs, then read the CSV; a missing or malformed file raises.
load_housing_data ==
    /\ pc = "start"
    /\ \/ \E n \in 1..MaxRows : \E rows \in [1..n -> RowPool] :
            /\ housing' = ReadCsv(rows)
            /\ pc' = "loaded"
            /\ UNCHANGED <<strat_train_set, strat_test_set, imputer, fits,
                           X_train, y_train, X_test, y_test, files, cwd, cw_dir,
                           cwd_at_call, INPUT_FILE, OUTPUT_PATH>>
       \/ Abort

\* Line 283.
binning ==
    /\ pc = "loaded"
    /\ IF "median_income" \in housing.columns
       THEN /\ housing' = binning_result(housing)
            /\ pc' = "binned"
            /\ UNCHANGED <<strat_train_set, strat_test_set, imputer, fits,
                           X_train, y_train, X_test, y_test, files, cwd, cw_dir,
                           cwd_at_call, INPUT_FILE, OUTPUT_PATH>>
       ELSE Abort

\* Line 284.
startified_split ==
    /\ pc = "binned"
    /\ LET y == Column(housing, "income_cat").data
       IN  IF ~SplitOk(y) THEN Abort
           ELSE \E o \in SplitOutcomes(y) :
                  IF LocOk(housing, o.train_index) /\ LocOk(housing, o.test_index)
                  THEN LET r == startified_split_result(housing, o.train_index,
                                                        o.test_index)
                       IN  /\ strat_train_set' = r.train
                           /\ strat_test_set' = r.test
                           /\ pc' = "split"
                           /\ UNCHANGED <<housing, imputer, fits, X_train, y_train,
                                          X_test, y_test, files, cwd, cw_dir,
                                          cwd_at_call, INPUT_FILE, OUTPUT_PATH>>
                  ELSE Abort

\* Lines 285-286: the unstratified split and the proportion table are locals
\* that nothing later reads.
calculate_proportions ==
    /\ pc = "split"
    /\ pc' = "compared"
    /\ UNCHANGED <<housing, strat_train_set, strat_test_set, imputer, fits,
                   X_train, y_train, X_test, y_test, files, cwd, cw_dir,
                   cwd_at_call, INPUT_FILE, OUTPUT_PATH>>

\* Line 287.
drop_income_cat ==
    /\ pc = "compared"
    /\ LET r == drop_income_cat_result(strat_train_set, strat_test_set)
       IN  /\ strat_train_set' = r.train
           /\ strat_test_set' = r.test
    /\ pc' = "dropped"
    /\ UNCHANGED <<housing, imputer, fits, X_train, y_train, X_test, y_test,
                   files, cwd, cw_dir, cwd_at_call, INPUT_FILE, OUTPUT_PATH>>

\* Lines 288, 290.
feature_engineering_traindataset ==
    /\ pc = "dropped"
    /\ LET r == feature_engineering_traindataset_result(strat_train_set)
       IN  /\ fits' = fits \o r.fit_calls
           /\ imputer' = r.imputer
           /\ X_train' = r.X
           /\ y_train' = r.y
           /\ pc' = IF r.ok THEN "trained" ELSE "aborted"
    /\ UNCHANGED <<housing, strat_train_set, strat_test_set, X_test, y_test,
                   files, cwd, cw_dir, cwd_at_call, INPUT_FILE, OUTPUT_PATH>>

\* The slip of fitting a fresh imputer on the test partition.
feature_engineering_testdataset_refit ==
    /\ pc = "trained"
    /\ LET X_test_num == Drop(Drop(strat_test_set, "median_house_value"),
                              "ocean_proximity")
           r == feature_engineering_testdataset_result(strat_test_set, Fit(X_test_num))
       IN  /\ fits' = fits \o <<X_test_num>>
           /\ imputer' = r.imputer
           /\ X_test' = r.X
           /\ y_test' = r.y
           /\ pc' = IF r.ok THEN "tested" ELSE "aborted"
    /\ UNCHANGED <<housing, strat_train_set, strat_test_set, X_train, y_train,
                   files, cwd, cw_dir, cwd_at_call, INPUT_FILE, OUTPUT_PATH>>

\* Lines 289, 291.
feature_engineering_testdataset ==
    /\ pc = "trained"
    /\ LET r == feature_engineering_testdataset_result(strat_test_set, imputer)
       IN  /\ fits' = fits \o r.fit_calls
           /\ imputer' = r.imputer
           /\ X_test' = r.X
           /\ y_test' = r.y
           /\ pc' = IF r.ok THEN "tested" ELSE "aborted"
    /\ UNCHANGED <<housing, strat_train_set, strat_test_set, X_train, y_train,
                   files, cwd, cw_dir, cwd_at_call, INPUT_FILE, OUTPUT_PATH>>

\* Lines 235-264 (line 292 in the pipeline).  The first k writes succeed; with
\* k < 4 the next to_csv raises and the function is left at once.  After the
\* fourth write the working directory goes to OUTPUT_PATH and then to cw_dir.
save_processdata ==
    /\ pc = "tested"
    /\ \E k \in 0..4 :
         LET out == OutputFiles(X_train, y_train, X_test, y_test, INPUT_FILE,
                                Resolve(cwd, OUTPUT_PATH))
         IN  /\ files' = files \o SubSeq(out, 1, k)
             /\ IF k = 4
                THEN /\ cwd' = cw_dir
                     /\ pc' = "saved"
                ELSE /\ cwd' = cwd
                     /\ pc' = "aborted"
    /\ UNCHANGED <<housing, strat_train_set, strat_test_set, imputer, fits,
                   X_train, y_train, X_test, y_test, cw_dir, cwd_at_call,
                   INPUT_FILE, OUTPUT_PATH>>

Init ==
    /\ pc = "start"
    /\ housing = EmptyFrame
    /\ strat_train_set = EmptyFrame
    /\ strat_test_set = EmptyFrame
    /\ imputer = UnfittedImputer
    /\ fits = <<>>
    /\ X_train = EmptyFrame
    /\ y_train = EmptySeries
    /\ X_test = EmptyFrame
    /\ y_test = EmptySeries
    /\ files = <<>>
    /\ cw_dir = <<"a">>
    /\ cwd = cw_dir
    /\ cwd_at_call = cwd
    /\ INPUT_FILE = <<"h", ".", "c">>
    /\ OUTPUT_PATH = [abs |-> FALSE, parts |-> <<"out">>]

Next ==
    \/ load_housing_data
    \/ binning
    \/ startified_split
    \/ calculate_proportions
    \/ drop_income_cat
    \/ feature_engineering_traindataset
    \/ feature_engineering_testdataset
    \/ save_processdata

Spec == Init /\ [][Next]_vars

---------------------------------------------------------------------------
(* binning on its own: every income from the lowest edge to above the highest,
   and the missing income *)

Incomes == (0..MaxIncome) \cup {NaN}

IncomeTable(v) ==
    [index   |-> RangeIndex(Len(v)),
     columns |-> {"median_income"},
     data    |-> [i \in DOMAIN v |-> [c \in {"median_income"} |-> v[i]]]]

InitBin ==
    /\ pc = "loaded"
    /\ \E n \in 1..MaxBinRows : \E v \in [1..n -> Incomes] :
          housing = IncomeTable(v)
    /\ strat_train_set = EmptyFrame
    /\ strat_test_set = EmptyFrame
    /\ imputer = UnfittedImputer
    /\ fits = <<>>
    /\ X_train = EmptyFrame
    /\ y_train = EmptySeries
    /\ X_test = EmptyFrame
    /\ y_test = EmptySeries
    /\ files = <<>>
    /\ cw_dir = <<"a">>
    /\ cwd = cw_dir
    /\ cwd_at_call = cwd
    /\ INPUT_FILE = <<"h", ".", "c">>
    /\ OUTPUT_PATH = [abs |-> FALSE, parts |-> <<"out">>]

NextBin == binning

SpecBin == InitBin /\ [][NextBin]_vars

---------------------------------------------------------------------------
(* startified_split on its own: tables of one or two classes, with and without
   missing labels, under the index a caller's table may carry *)

SplitLabels == {1, 2, NaN}

\* RangeIndex, the same labels reversed, labels starting at 1, a repeated label.
IndexShapes(n) ==
    { RangeIndex(n),
      [i \in 1..n |-> n - i],
      [i \in 1..n |-> i],
      [i \in 1..n |-> IF i = 1 THEN 0 ELSE i - 2] }

LabelledTable(v, ix) ==
    [index   |-> ix,
     columns |-> {"income_cat"},
     data    |-> [i \in DOMAIN v |-> [c \in {"income_cat"} |-> v[i]]]]

\* Rows grouped by label (the split tells rows apart by label, not by place).
Grouped(v) == \A i \in 1..(Len(v) - 1) : v[i] <= v[i + 1]

InitSplit ==
    /\ pc = "binned"
    /\ \E n \in 1..MaxSplitRows : \E v \in [1..n -> SplitLabels] :
          /\ Grouped(v)
          /\ \E ix \in IndexShapes(n) : housing = LabelledTable(v, ix)
    /\ strat_train_set = EmptyFrame
    /\ strat_test_set = EmptyFrame
    /\ imputer = UnfittedImputer
    /\ fits = <<>>
    /\ X_train = EmptyFrame
    /\ y_train = EmptySeries
    /\ X_test = EmptyFrame
    /\ y_test = EmptySeries
    /\ files = <<>>
    /\ cw_dir = <<"a">>
    /\ cwd = cw_dir
    /\ cwd_at_call = cwd
    /\ INPUT_FILE = <<"h", ".", "c">>
    /\ OUTPUT_PATH = [abs |-> FALSE, parts |-> <<"out">>]

NextSplit == startified_split

SpecSplit == InitSplit /\ [][NextSplit]_vars

---------------------------------------------------------------------------
(* save_processdata on its own: any file name, any working directory *)

Chars == {"h", "."}

\* Names of one or more dot-separated parts, none of them empty: "h", "h.h",
\* "hh.h", "h.h.h", ...
IsFileName(name) ==
    /\ name[1] # "."
    /\ name[Len(name)] # "."
    /\ \A i \in 1..(Len(name) - 1) : ~(name[i] = "." /\ name[i + 1] = ".")

OneRowFrame == [index |-> <<0>>, columns |-> {"households"},
                data |-> << [c \in {"households"} |-> 8] >>]

OneRowSeries == [index |-> <<0>>, data |-> <<400>>]

\* The importing program changes directory between import and the call.
HostChdir ==
    /\ pc = "imported"
    /\ \E d \in Dirs \cup {<<"a", "out">>} :
         /\ d # cwd
         /\ cwd' = d
    /\ UNCHANGED <<pc, housing, strat_train_set, strat_test_set, imputer, fits,
                   X_train, y_train, X_test, y_test, files, cw_dir, cwd_at_call,
                   INPUT_FILE, OUTPUT_PATH>>

\* The caller enters save_processdata with its own frames.
call_save_processdata ==
    /\ pc = "imported"
    /\ pc' = "tested"
    /\ cwd_at_call' = cwd
    /\ UNCHANGED <<housing, strat_train_set, strat_test_set, imputer, fits,
                   X_train, y_train, X_test, y_test, files, cwd, cw_dir,
                   INPUT_FILE, OUTPUT_PATH>>

InitSave ==
    /\ pc = "imported"
    /\ housing = EmptyFrame
    /\ strat_train_set = EmptyFrame
    /\ strat_test_set = EmptyFrame
    /\ imputer = UnfittedImputer
    /\ fits = <<>>
    /\ X_train = OneRowFrame
    /\ y_train = OneRowSeries
    /\ X_test = OneRowFrame
    /\ y_test = OneRowSeries
    /\ files = <<>>
    /\ cw_dir \in Dirs
    /\ cwd = cw_dir
    /\ cwd_at_call = cwd
    /\ \E n \in 1..MaxNameLen : \E name \in [1..n -> Chars] :
          IsFileName(name) /\ INPUT_FILE = name
    /\ OUTPUT_PATH \in OutputPaths

NextSave ==
    \/ HostChdir
    \/ call_save_processdata
    \/ save_processdata

SpecSave == InitSave /\ [][NextSave]_vars

---------------------------------------------------------------------------
(* Claims *)

NumericColumns == RawColumns \ {"ocean_proximity", "median_house_value"}

RatioColumns == {"rooms_per_household", "bedrooms_per_room",
                 "population_per_household"}

Injective(s) == \A i, j \in DOMAIN s : i # j => s[i] # s[j]

\* The row of the loaded table that carries label l (the loaded table has a
\* RangeIndex, so this is row l + 1).
RawRow(l) == housing.data[l + 1]

TrainColumnCells(c) == [i \in DOMAIN strat_train_set.data |-> strat_train_set.data[i][c]]

\* C1: the imputer is fitted exactly once, on the numeric columns of the train
\* partition (ocean_proximity and median_house_value excluded), before the
\* test partition is transformed; the test step leaves the fitted medians
\* alone, and every missing test cell is filled with the train median.
C1_FitOnceOnTrainOnly ==
    /\ Len(fits) <= 1
    /\ pc \in {"start", "loaded", "binned", "split", "compared", "dropped"}
         => fits = <<>> /\ ~imputer.fitted
    /\ pc \in {"trained", "tested", "saved"} => Len(fits) = 1
    /\ X_test # EmptyFrame => Len(fits) = 1
    /\ Len(fits) = 1 =>
         /\ fits[1].columns = NumericColumns
         /\ fits[1].index = strat_train_set.index
         /\ \A i \in DOMAIN fits[1].data : \A c \in NumericColumns :
               fits[1].data[i][c] = strat_train_set.data[i][c]
         /\ imputer.fitted
         /\ imputer.columns = NumericColumns
         /\ \A c \in NumericColumns :
               imputer.statistics[c] = Median(TrainColumnCells(c))
    /\ X_test # EmptyFrame =>
         \A i \in DOMAIN X_test.data : \A c \in NumericColumns :
            X_test.data[i][c] =
               IF IsNaN(strat_test_set.data[i][c])
               THEN Median(TrainColumnCells(c))
               ELSE strat_test_set.data[i][c]

\* A finished run whose test partition had a missing cell, filled with a train
\* median that the test partition's own cells do not yield, in a column where
\* the train partition had a missing cell too.
C1_Witness ==
    /\ pc = "saved"
    /\ \E i \in DOMAIN strat_test_set.data : \E c \in NumericColumns :
          /\ IsNaN(strat_test_set.data[i][c])
          /\ X_test.data[i][c] = Median(TrainColumnCells(c))
          /\ Median(TrainColumnCells(c)) # Median(Column(strat_test_set, c).data)
          /\ \E j \in DOMAIN strat_train_set.data : IsNaN(strat_train_set.data[j][c])

\* C2: after startified_split the two partitions are disjoint, every row of
\* the table is in exactly one of them, and the row counts add up.
C2_SplitPartitions ==
    pc = "split" =>
        /\ NRows(strat_train_set) + NRows(strat_test_set) = NRows(housing)
        /\ Injective(housing.index)
        /\ Injective(strat_train_set.index)
        /\ Injective(strat_test_set.index)
        /\ Range(strat_train_set.index) \cap Range(strat_test_set.index) = {}
        /\ Range(strat_train_set.index) \cup Range(strat_test_set.index)
             = Range(housing.index)
        /\ \A t \in {strat_train_set, strat_test_set} : \A i \in DOMAIN t.index :
              \E j \in DOMAIN housing.index :
                 housing.index[j] = t.index[i] /\ housing.data[j] = t.data[i]

\* A split of a table with two income classes, two test rows, and an index
\* that is not the RangeIndex.
C2_Witness ==
    /\ pc = "split"
    /\ Cardinality(Range(Column(housing, "income_cat").data)) = 2
    /\ NRows(strat_test_set) = 2
    /\ housing.index # RangeIndex(NRows(housing))

\* C3: binning gives every row exactly one label from {1,2,3,4,5}, fixed by
\* its median_income against the edges 0, 1.5, 3.0, 4.5, 6.0, +infinity, an
\* income equal to an edge going to the lower bin; no row is left unlabelled.
C3_EveryRowLabelled ==
    pc = "binned" =>
        \A i \in DOMAIN housing.data :
            LET x == housing.data[i]["median_income"]
                l == housing.data[i]["income_cat"]
            IN  /\ l \in {1, 2, 3, 4, 5}
                /\ ~IsNaN(x) =>
                     /\ (0 < x /\ x <= 6)   => l = 1
                     /\ (6 < x /\ x <= 12)  => l = 2
                     /\ (12 < x /\ x <= 18) => l = 3
                     /\ (18 < x /\ x <= 24) => l = 4
                     /\ (24 < x)            => l = 5

\* C4: income_cat is removed from both partitions after the split and before
\* feature engineering; it is never a column of X_train or X_test nor of a
\* written file.
C4_IncomeCatDropped ==
    /\ pc \in {"split", "compared"} =>
          /\ "income_cat" \in strat_train_set.columns
          /\ "income_cat" \in strat_test_set.columns
          /\ fits = <<>>
    /\ pc \in {"dropped", "trained", "tested", "saved"} =>
          \A t \in {strat_train_set, strat_test_set} :
             /\ "income_cat" \notin t.columns
             /\ \A i \in DOMAIN t.data : "income_cat" \notin DOMAIN t.data[i]
    /\ \A t \in {X_train, X_test} :
          /\ "income_cat" \notin t.columns
          /\ \A i \in DOMAIN t.data : "income_cat" \notin DOMAIN t.data[i]
    /\ \A k \in DOMAIN files :
          /\ "income_cat" \notin files[k].content.columns
          /\ \A i \in DOMAIN files[k].content.data :
                "income_cat" \notin DOMAIN files[k].content.data[i]

\* A finished run: the binned table has the label column, all four files are
\* written.
C4_Witness ==
    /\ pc = "saved"
    /\ "income_cat" \in housing.columns
    /\ Len(files) = 4

\* The name with its extension removed: everything before the last dot, the
\* whole name when it has no dot.
RECURSIVE StripExtension(_)
StripExtension(name) ==
    IF \A i \in DOMAIN name : name[i] # "." THEN name
    ELSE IF name[Len(name)] = "." THEN SubSeq(name, 1, Len(name) - 1)
    ELSE StripExtension(SubSeq(name, 1, Len(name) - 1))

Suffixes == <<"_train.csv", "_label.csv", "_testdata.csv", "_testlabel.csv">>

\* C5: save_processdata writes exactly four files into the output directory,
\* named by the input file name with only its extension removed, followed by
\* _train.csv, _label.csv, _testdata.csv and _testlabel.csv.
C5_NamesStripExtensionOnly ==
    pc = "saved" =>
        /\ Len(files) = 4
        /\ \A k \in 1..4 :
              /\ files[k].dir = Resolve(cwd_at_call, OUTPUT_PATH)
              /\ files[k].name = StripExtension(INPUT_FILE) \o <<Suffixes[k]>>

OceanLevels(t) == {t.data[i]["ocean_proximity"] : i \in DOMAIN t.data}

IndicatorColumns(X) == X.columns \ (NumericColumns \cup RatioColumns)

\* C6: each feature table holds exactly the imputed numeric columns, the three
\* ratio columns and C-1 indicator columns, C the number of ocean_proximity
\* categories; median_house_value and ocean_proximity are not among them; the
\* train and the test feature table carry the same set of columns.
C6_SameFeatureColumns ==
    pc \in {"tested", "saved"} =>
        /\ \A p \in { <<X_train, strat_train_set>>, <<X_test, strat_test_set>> } :
              /\ NumericColumns \cup RatioColumns \subseteq p[1].columns
              /\ Cardinality(IndicatorColumns(p[1]))
                    = Cardinality(OceanLevels(p[2])) - 1
              /\ \A c \in IndicatorColumns(p[1]) :
                    \E v \in OceanLevels(p[2]) : c = "ocean_proximity_" \o v
              /\ "median_house_value" \notin p[1].columns
              /\ "ocean_proximity" \notin p[1].columns
        /\ X_train.columns = X_test.columns

\* X and y of one partition are row-aligned, and row i of both comes from the
\* raw record carrying label X.index[i].
Aligned(X, y, part) ==
    /\ X.index = part.index
    /\ y.index = part.index
    /\ Len(X.data) = Len(X.index)
    /\ Len(y.data) = Len(X.index)
    /\ \A i \in DOMAIN X.index :
          LET raw == RawRow(X.index[i])
          IN  /\ y.data[i] = raw["median_house_value"]
              /\ \A c \in NumericColumns :
                    ~IsNaN(raw[c]) => X.data[i][c] = raw[c]
              /\ \A c \in IndicatorColumns(X) :
                    X.data[i][c] = 1 <=> c = "ocean_proximity_" \o raw["ocean_proximity"]

\* C7: y is the partition's median_house_value column, taken before feature
\* engineering, and stays row-aligned with X: same rows in the same order, row
\* i of X and entry i of y from the same raw record, so the index-free CSV
\* files correspond line by line.
C7_LabelsAligned ==
    /\ X_train # EmptyFrame => Aligned(X_train, y_train, strat_train_set)
    /\ X_test # EmptyFrame => Aligned(X_test, y_test, strat_test_set)
    /\ pc \in {"trained", "tested", "saved"} => X_train # EmptyFrame
    /\ pc \in {"tested", "saved"} => X_test # EmptyFrame
    /\ pc = "saved" =>
          /\ Len(files) = 4
          /\ files[1].content.data = X_train.data
          /\ files[3].content.data = X_test.data
          /\ \A i \in DOMAIN y_train.data :
                files[2].content.data[i]["median_house_value"] = y_train.data[i]
          /\ \A i \in DOMAIN y_test.data :
                files[4].content.data[i]["median_house_value"] = y_test.data[i]
          /\ Len(files[2].content.data) = Len(files[1].content.data)
          /\ Len(files[4].content.data) = Len(files[3].content.data)

\* A finished run whose train partition is out of table order and holds rows
\* with different targets.
C7_Witness ==
    /\ pc = "saved"
    /\ NRows(X_train) >= 2
    /\ X_train.index[1] > X_train.index[2]
    /\ y_train.data[1] # y_train.data[2]
    /\ y_train.data[1] # y_test.data[1]

\* C8: when save_processdata returns, the working directory is the one it was
\* immediately before the call.
C8_CwdRestored == pc = "saved" => cwd = cwd_at_call

Rank(p) ==
    CASE p = "start"    -> 0
      [] p = "loaded"   -> 1
      [] p = "binned"   -> 2
      [] p = "split"    -> 3
      [] p = "compared" -> 4
      [] p = "dropped"  -> 5
      [] p = "trained"  -> 6
      [] p = "tested"   -> 7
      [] p = "saved"    -> 8
      [] OTHER          -> 9

IsPrefix(s, t) == Len(s) <= Len(t) /\ s = SubSeq(t, 1, Len(s))

\* The files on disk are the first files of the run's output, in the order
\* train features, train labels, test features, test labels.
WrittenInOrder ==
    /\ Len(files) <= 4
    /\ \A k \in DOMAIN files :
          /\ files[k].name = <<"h", Suffixes[k]>>
          /\ files[k].content.columns =
                (CASE k = 1 -> X_train.columns
                   [] k = 3 -> X_test.columns
                   [] OTHER -> {"median_house_value"})
          /\ Len(files[k].content.data) =
                (IF k <= 2 THEN NRows(strat_train_set) ELSE NRows(strat_test_set))

\* C9: the steps of init_preprocess run at most once each, in the order load,
\* bin, split, feature-engineer train, feature-engineer test, write; a failing
\* step ends the run there: nothing runs after it, nothing is retried, files
\* already written stay as they are, so a failure while writing leaves a
\* strict prefix of the four files.
C9_LinearNoRetryNoCleanup ==
    /\ [][ /\ pc \notin {"aborted", "saved"}
           /\ pc' = "aborted" \/ Rank(pc') = Rank(pc) + 1
           /\ IsPrefix(files, files')
           /\ pc # "tested" => files' = files
           /\ (pc = "tested" /\ pc' = "aborted") => Len(files') < 4
           /\ (pc = "tested" /\ pc' = "saved") => Len(files') = 4 ]_vars
    /\ [](WrittenInOrder /\ (files # <<>> => pc \in {"saved", "aborted"}))

\* A run that failed while writing, with some but not all files on disk.
C9_Witness == pc = "aborted" /\ Len(files) \in 1..3

\* The cell a ratio is computed from: the raw cell, or the train median when
\* the raw cell is missing.
Imputed(raw, c) == IF IsNaN(raw[c]) THEN imputer.statistics[c] ELSE raw[c]

\* q is the quotient a / b: a reduced fraction, or for b = 0 the infinite or
\* undefined value of the sign of a.
IsQuotient(q, a, b) ==
    IF b = 0 THEN q[2] = 0 /\ q[1] = Sign(a)
    ELSE /\ q[2] > 0
         /\ q[1] * b = q[2] * a
         /\ \A g \in 2..q[2] : ~(q[1] % g = 0 /\ q[2] % g = 0)

RatiosOf(X) ==
    \A i \in DOMAIN X.data :
        LET raw == RawRow(X.index[i])
            row == X.data[i]
        IN  /\ IsQuotient(row["rooms_per_household"],
                          Imputed(raw, "total_rooms"), Imputed(raw, "households"))
            /\ IsQuotient(row["bedrooms_per_room"],
                          Imputed(raw, "total_bedrooms"), Imputed(raw, "total_rooms"))
            /\ IsQuotient(row["population_per_household"],
                          Imputed(raw, "population"), Imputed(raw, "households"))
            /\ (/\ raw["total_rooms"] = 40 /\ raw["households"] = 8
                /\ raw["total_bedrooms"] = 20 /\ raw["population"] = 80)
               => /\ row["rooms_per_household"] = <<5, 1>>
                  /\ row["bedrooms_per_room"] = <<1, 2>>
                  /\ row["population_per_household"] = <<10, 1>>

\* Feature engineering of the train partition was entered and raised.
TrainStepRaised ==
    /\ pc = "aborted"
    /\ fits # <<>>
    /\ X_train = EmptyFrame

\* C10: in both partitions the three derived columns are the quotients of the
\* imputed cells, rooms_per_household = total_rooms / households,
\* bedrooms_per_room = total_bedrooms / total_rooms, population_per_household
\* = population / households (10, 2, 5, 20 give 5, 0.5, 10); a zero divisor
\* is no error: the cell is infinite or undefined and the run goes on to write.
C10_RatiosOfImputedCells ==
    /\ X_train # EmptyFrame => RatiosOf(X_train)
    /\ X_test # EmptyFrame => RatiosOf(X_test)
    /\ TrainStepRaised =>
          \E c \in NumericColumns :
             \A i \in DOMAIN strat_train_set.data : IsNaN(strat_train_set.data[i][c])
    /\ (pc = "aborted" /\ X_train # EmptyFrame) => X_test # EmptyFrame
    /\ pc = "saved" => files[1].content.data = X_train.data
                       /\ files[3].content.data = X_test.data

\* A finished run with the worked example's row, a ratio over a zero divisor
\* and a ratio over an imputed cell, all in the written train file.
C10_Witness ==
    /\ pc = "saved"
    /\ \E i \in DOMAIN X_train.data :
          files[1].content.data[i]["rooms_per_household"] = <<5, 1>>
    /\ \E i \in DOMAIN X_train.data :
          files[1].content.data[i]["rooms_per_household"][2] = 0
    /\ \E i \in DOMAIN X_train.data :
          /\ IsNaN(RawRow(X_train.index[i])["total_bedrooms"])
          /\ X_train.data[i]["bedrooms_per_room"][2] > 0

====
